---- MODULE Spec2Model ----
(***************************************************************************)
(* Pipeline control plane of ai-product-team: the cost ledger              *)
(* (core/cost_tracker.py), the loop detector (core/loop_detector.py), the  *)
(* safety monitor (core/safety.py) and the ideation phase of the           *)
(* orchestrator (core/orchestrator.py), with the learning engine          *)
(* (core/learning_engine.py) beside them.                                  *)
(*                                                                         *)
(* Money is counted in units of 10^-8 USD, so that every price of the      *)
(* pricing table (USD per million tokens, two decimals) times a token      *)
(* count is an integer: cost_usd * 10^8 = in * (100*p_in) + out *          *)
(* (100*p_out).  Arithmetic is exact; the rounding of Python floats is not *)
(* modelled.  A text is the sequence of its whitespace-separated tokens.   *)
(* Timestamps and the free-text message of an event are not modelled.      *)
(***************************************************************************)
EXTENDS Integers, Sequences, FiniteSets, TLC

VARIABLES
    safety,     \* the SafetyMonitor: status, events, cost_tracker, loop_detector
    run,        \* the Orchestrator's PipelineRun: session_id, active_ideas, archived_ideas
    ideas,      \* the ProductIdea objects created so far; an idea is named by its index
    pc,         \* where execute_ideation stands: "idle", "generating", "evaluating"
    batch,      \* the ideas (indices) of the batch of the current/last phase execution
    result,     \* the PhaseResult last returned by execute_ideation
    raised,     \* the exception raised inside execute_ideation's try block, if any
    escaped,    \* the exception that left execute_ideation, if any
    calls,      \* how often execute_ideation, the generation and the evaluation capability were called
    checks,     \* what check_agent_message returned for each idea of the current/last phase execution
    ret,        \* what the last direct call on the ledger / monitor / detector returned or raised
    learning,   \* the LearningEngine: lessons, graveyard, failure_analyses
    log,        \* the direct LoopDetector.check calls so far: agent, message, action returned
    gates       \* the module-level dict GATE_REQUIREMENTS of core/phases.py

vars == <<safety, run, ideas, pc, batch, result, raised, escaped, calls, checks, ret,
          learning, log, gates>>

\* what a direct call on the ledger or the monitor cannot touch
orch_vars == <<run, ideas, pc, batch, result, raised, escaped, calls, checks, learning, log,
               gates>>

\* ---------------------------------------------------------------- bounds
MaxEntries == 3
MaxEvents == 6
MaxMessages == 4
MaxPhases == 2
MaxBatch == 2
MaxScores == 2
MaxLessons == 3
MaxGraveyard == 6
MaxContextLessons == 6

\* ---------------------------------------------------------------- helpers
\* None where a string is expected; an optional record is <<>> or <<record>>
None == "None"

Some(x) == <<x>>

\* the agents that send messages
AgentNames == {"Visionary", "StuckAgent"}

Max(a, b) == IF a >= b THEN a ELSE b

Range(s) == {s[i] : i \in DOMAIN s}

\* s[-n:] of Python for n >= 0 (s[-0:] is the whole list)
LastN(s, n) == IF n = 0 \/ n >= Len(s) THEN s ELSE SubSeq(s, Len(s) - n + 1, Len(s))

RECURSIVE SumCost(_)
SumCost(es) == IF es = <<>> THEN 0 ELSE es[1].cost_usd + SumCost(Tail(es))

\* ---------------------------------------------------------------- cost ledger
\* MODEL_PRICING, prices times 100
MODEL_PRICING ==
    [m \in {"claude-sonnet-4-20250514", "claude-haiku-3-5-20241022",
            "claude-opus-4-20250514", "gpt-4o-mini", "gpt-4o"} |->
        CASE m = "claude-sonnet-4-20250514" -> <<300, 1500>>
          [] m = "claude-haiku-3-5-20241022" -> <<80, 400>>
          [] m = "claude-opus-4-20250514" -> <<1500, 7500>>
          [] m = "gpt-4o-mini" -> <<15, 60>>
          [] m = "gpt-4o" -> <<250, 1000>>]

\* a model that is not in the table costs nothing
DefaultPricing_free == <<0, 0>>

\* the fallback pair of MODEL_PRICING.get(model, (5.0, 15.0)), times 100
DefaultPricing == <<500, 1500>>

Pricing(model) ==
    IF model \in DOMAIN MODEL_PRICING THEN MODEL_PRICING[model] ELSE DefaultPricing

\* cost of one call, in 10^-8 USD
Cost(model, input_tokens, output_tokens) ==
    input_tokens * Pricing(model)[1] + output_tokens * Pricing(model)[2]

CostTracker(budget) == [budget_usd |-> budget, entries |-> <<>>]

total_cost(ct) == SumCost(ct.entries)

remaining_budget(ct) == Max(0, ct.budget_usd - total_cost(ct))

is_over_budget_strict(ct) == total_cost(ct) > ct.budget_usd

is_over_budget(ct) == total_cost(ct) >= ct.budget_usd

CostEntry(agent_name, model, input_tokens, output_tokens, phase) ==
    [agent_name |-> agent_name, model |-> model,
     input_tokens |-> input_tokens, output_tokens |-> output_tokens,
     cost_usd |-> Cost(model, input_tokens, output_tokens), phase |-> phase]

\* the entry is appended only when the call stays within budget
record_drop(ct, agent_name, model, input_tokens, output_tokens, phase) ==
    LET entry == CostEntry(agent_name, model, input_tokens, output_tokens, phase)
        ct2 == [ct EXCEPT !.entries = Append(@, entry)]
    IN  IF is_over_budget(ct2)
        THEN [cost_tracker |-> ct, raised |-> TRUE, entry |-> entry]
        ELSE [cost_tracker |-> ct2, raised |-> FALSE, entry |-> entry]

\* the error is raised only by the call that crosses the budget
record_raise_on_crossing(ct, agent_name, model, input_tokens, output_tokens, phase) ==
    LET entry == CostEntry(agent_name, model, input_tokens, output_tokens, phase)
        ct2 == [ct EXCEPT !.entries = Append(@, entry)]
    IN  [cost_tracker |-> ct2, raised |-> is_over_budget(ct2) /\ ~is_over_budget(ct),
         entry |-> entry]

\* CostTracker.record: the ledger after the call, whether BudgetExceededError
\* was raised, and the entry (returned when nothing is raised)
record(ct, agent_name, model, input_tokens, output_tokens, phase) ==
    LET entry == CostEntry(agent_name, model, input_tokens, output_tokens, phase)
        ct2 == [ct EXCEPT !.entries = Append(@, entry)]
    IN  [cost_tracker |-> ct2, raised |-> is_over_budget(ct2), entry |-> entry]

\* ---------------------------------------------------------------- loop detector
\* str.lower() on a token
Lower(w) == CASE w = "A" -> "a" [] OTHER -> w

\* set(text.lower().split())
Words(text) == {Lower(text[i]) : i \in DOMAIN text}

\* the words are compared without lower-casing them
jaccard_similarity_cased(text1, text2) ==
    LET words1 == Range(text1)
        words2 == Range(text2)
    IN  IF words1 = {} \/ words2 = {}
        THEN <<0, 1>>
        ELSE <<Cardinality(words1 \cap words2), Cardinality(words1 \cup words2)>>

\* LoopDetector._jaccard_similarity, as the fraction <<numerator, denominator>>
jaccard_similarity(text1, text2) ==
    LET words1 == Words(text1)
        words2 == Words(text2)
    IN  IF words1 = {} \/ words2 = {}
        THEN <<0, 1>>
        ELSE <<Cardinality(words1 \cap words2), Cardinality(words1 \cup words2)>>

\* the comparison is strict
AtLeast_strict(sim, threshold) == sim[1] * 100 > threshold * sim[2]

\* sim >= threshold, the threshold in hundredths
AtLeast(sim, threshold) == sim[1] * 100 >= threshold * sim[2]

LoopDetector(threshold, window_size) ==
    [threshold |-> threshold, window_size |-> window_size,
     history |-> [a \in AgentNames |-> <<>>], events |-> <<>>]

\* self._history[agent_name], the empty list when the agent is new
HistoryOf(ld, agent_name) == ld.history[agent_name]

RECURSIVE SimilarCount(_, _, _)
SimilarCount(message, past, threshold) ==
    IF past = <<>> THEN 0
    ELSE (IF AtLeast(jaccard_similarity(message, past[1]), threshold) THEN 1 ELSE 0)
         + SimilarCount(message, Tail(past), threshold)

\* the events of every agent are counted
AgentEvents_all(ld, agent_name) == ld.events

\* [e for e in self.events if e.agent_name == agent_name]
AgentEvents(ld, agent_name) == SelectSeq(ld.events, LAMBDA e : e.agent_name = agent_name)

Escalation(prior) ==
    IF prior >= 2 THEN "kill" ELSE IF prior >= 1 THEN "skip_turn" ELSE "inject_prompt"

\* one similar message fewer is enough to flag a loop
check_off_by_one(ld, agent_name, message) ==
    LET history == Append(HistoryOf(ld, agent_name), message)
        similar_count ==
            SimilarCount(message, LastN(HistoryOf(ld, agent_name), ld.window_size), ld.threshold)
        stored == IF Len(history) > ld.window_size * 3
                  THEN LastN(history, ld.window_size * 3)
                  ELSE history
        ld2 == [ld EXCEPT !.history[agent_name] = stored]
        action == Escalation(Len(AgentEvents(ld, agent_name)))
        event == [agent_name |-> agent_name, action_taken |-> action,
                  similarity_score |-> ld.threshold,
                  message_window |-> LastN(history, ld.window_size)]
    IN  IF similar_count >= ld.window_size - 2
        THEN [loop_detector |-> [ld2 EXCEPT !.events = Append(@, event)], action |-> action]
        ELSE [loop_detector |-> ld2, action |-> None]

\* the event records the window as it was before the message was appended
check_stale_window(ld, agent_name, message) ==
    LET history == Append(HistoryOf(ld, agent_name), message)
        similar_count ==
            SimilarCount(message, LastN(HistoryOf(ld, agent_name), ld.window_size), ld.threshold)
        stored == IF Len(history) > ld.window_size * 3
                  THEN LastN(history, ld.window_size * 3)
                  ELSE history
        ld2 == [ld EXCEPT !.history[agent_name] = stored]
        action == Escalation(Len(AgentEvents(ld, agent_name)))
        event == [agent_name |-> agent_name, action_taken |-> action,
                  similarity_score |-> ld.threshold,
                  message_window |-> LastN(HistoryOf(ld, agent_name), ld.window_size)]
    IN  IF similar_count >= ld.window_size - 1
        THEN [loop_detector |-> [ld2 EXCEPT !.events = Append(@, event)], action |-> action]
        ELSE [loop_detector |-> ld2, action |-> None]

\* the history is trimmed before the message is appended
check_trim_first(ld, agent_name, message) ==
    LET old == HistoryOf(ld, agent_name)
        history == Append(old, message)
        similar_count == SimilarCount(message, LastN(old, ld.window_size), ld.threshold)
        stored == Append(IF Len(old) > ld.window_size * 3
                         THEN LastN(old, ld.window_size * 3)
                         ELSE old, message)
        ld2 == [ld EXCEPT !.history[agent_name] = stored]
        action == Escalation(Len(AgentEvents(ld, agent_name)))
        event == [agent_name |-> agent_name, action_taken |-> action,
                  similarity_score |-> ld.threshold,
                  message_window |-> LastN(history, ld.window_size)]
    IN  IF similar_count >= ld.window_size - 1
        THEN [loop_detector |-> [ld2 EXCEPT !.events = Append(@, event)], action |-> action]
        ELSE [loop_detector |-> ld2, action |-> None]

\* LoopDetector.check: the detector after the call and the action returned
check(ld, agent_name, message) ==
    LET history == Append(HistoryOf(ld, agent_name), message)
        similar_count ==
            SimilarCount(message, LastN(HistoryOf(ld, agent_name), ld.window_size), ld.threshold)
        stored == IF Len(history) > ld.window_size * 3
                  THEN LastN(history, ld.window_size * 3)
                  ELSE history
        ld2 == [ld EXCEPT !.history[agent_name] = stored]
        action == Escalation(Len(AgentEvents(ld, agent_name)))
        event == [agent_name |-> agent_name, action_taken |-> action,
                  similarity_score |-> ld.threshold,
                  message_window |-> LastN(history, ld.window_size)]
    IN  IF similar_count >= ld.window_size - 1
        THEN [loop_detector |-> [ld2 EXCEPT !.events = Append(@, event)], action |-> action]
        ELSE [loop_detector |-> ld2, action |-> None]

\* ---------------------------------------------------------------- safety monitor
SafetyEvent(event_type, agent_name) == [event_type |-> event_type, agent_name |-> agent_name]

SafetyMonitor(budget, threshold, window_size) ==
    [cost_tracker |-> CostTracker(budget),
     loop_detector |-> LoopDetector(threshold, window_size),
     status |-> "running",
     events |-> <<>>]

is_safe_to_proceed_not_killed(m) == m.status # "killed"

is_safe_to_proceed(m) == m.status = "running"

\* a monitor that is already killed is left alone
kill_once(m) ==
    IF m.status = "killed" THEN m
    ELSE [m EXCEPT !.status = "killed",
                   !.events = Append(@, SafetyEvent("killed", "system"))]

\* the kill switch is thrown without a trace in the log
kill_silent(m) == [m EXCEPT !.status = "killed"]

kill(m) ==
    [m EXCEPT !.status = "killed",
              !.events = Append(@, SafetyEvent("killed", "system"))]

\* the pause is not logged
pause_no_event(m) ==
    IF m.status = "running" THEN [m EXCEPT !.status = "paused"] ELSE m

pause(m) ==
    IF m.status = "running"
    THEN [m EXCEPT !.status = "paused",
                   !.events = Append(@, SafetyEvent("paused", "system"))]
    ELSE m

resume_any(m) ==
    IF m.status # "running"
    THEN [m EXCEPT !.status = "running",
                   !.events = Append(@, SafetyEvent("resumed", "system"))]
    ELSE m

resume(m) ==
    IF m.status = "paused"
    THEN [m EXCEPT !.status = "running",
                   !.events = Append(@, SafetyEvent("resumed", "system"))]
    ELSE m

\* a KILL of the detector is logged but the kill switch is not thrown
check_agent_message_no_kill(m, agent_name, message) ==
    IF ~is_safe_to_proceed(m)
    THEN [safety |-> m, action |-> "kill"]
    ELSE LET c == check(m.loop_detector, agent_name, message)
             m1 == [m EXCEPT !.loop_detector = c.loop_detector]
             m2 == [m1 EXCEPT !.events =
                       Append(@, SafetyEvent("loop_detected:" \o c.action, agent_name))]
         IN  IF c.action = None
             THEN [safety |-> m1, action |-> None]
             ELSE [safety |-> m2, action |-> c.action]

\* a message that arrives while the monitor is not running throws the kill switch
check_agent_message_kills(m, agent_name, message) ==
    IF ~is_safe_to_proceed(m)
    THEN [safety |-> kill(m), action |-> "kill"]
    ELSE LET c == check(m.loop_detector, agent_name, message)
             m1 == [m EXCEPT !.loop_detector = c.loop_detector]
             m2 == [m1 EXCEPT !.events =
                       Append(@, SafetyEvent("loop_detected:" \o c.action, agent_name))]
         IN  IF c.action = None
             THEN [safety |-> m1, action |-> None]
             ELSE [safety |-> IF c.action = "kill" THEN kill(m2) ELSE m2,
                   action |-> c.action]

\* SafetyMonitor.check_agent_message: the monitor after the call and the action returned
check_agent_message(m, agent_name, message) ==
    IF ~is_safe_to_proceed(m)
    THEN [safety |-> m, action |-> "kill"]
    ELSE LET c == check(m.loop_detector, agent_name, message)
             m1 == [m EXCEPT !.loop_detector = c.loop_detector]
             m2 == [m1 EXCEPT !.events =
                       Append(@, SafetyEvent("loop_detected:" \o c.action, agent_name))]
         IN  IF c.action = None
             THEN [safety |-> m1, action |-> None]
             ELSE [safety |-> IF c.action = "kill" THEN kill(m2) ELSE m2,
                   action |-> c.action]

\* the budget breach is logged but the kill switch is not thrown
record_cost_no_kill(m, agent_name, model, input_tokens, output_tokens, phase) ==
    LET r == record(m.cost_tracker, agent_name, model, input_tokens, output_tokens, phase)
        m1 == [m EXCEPT !.cost_tracker = r.cost_tracker]
    IN  IF r.raised
        THEN [safety |-> [m1 EXCEPT !.events =
                             Append(@, SafetyEvent("budget_exceeded", agent_name))],
              raised |-> TRUE]
        ELSE [safety |-> m1, raised |-> FALSE]

\* the cost is recorded only while the monitor is running
record_cost_gated(m, agent_name, model, input_tokens, output_tokens, phase) ==
    LET r == record(m.cost_tracker, agent_name, model, input_tokens, output_tokens, phase)
        m1 == [m EXCEPT !.cost_tracker = r.cost_tracker]
    IN  IF m.status # "running"
        THEN [safety |-> m, raised |-> FALSE]
        ELSE IF r.raised
        THEN [safety |-> kill([m1 EXCEPT !.events =
                                  Append(@, SafetyEvent("budget_exceeded", agent_name))]),
              raised |-> TRUE]
        ELSE [safety |-> m1, raised |-> FALSE]

\* SafetyMonitor.record_cost: the monitor after the call and whether
\* BudgetExceededError was re-raised
record_cost(m, agent_name, model, input_tokens, output_tokens, phase) ==
    LET r == record(m.cost_tracker, agent_name, model, input_tokens, output_tokens, phase)
        m1 == [m EXCEPT !.cost_tracker = r.cost_tracker]
    IN  IF r.raised
        THEN [safety |-> kill([m1 EXCEPT !.events =
                                  Append(@, SafetyEvent("budget_exceeded", agent_name))]),
              raised |-> TRUE]
        ELSE [safety |-> m1, raised |-> FALSE]

\* ---------------------------------------------------------------- orchestrator
PipelineRun == [session_id |-> 0, active_ideas |-> <<>>, archived_ideas |-> <<>>]

PhaseResult(success, ideas_in, ideas_out, evaluation, error) ==
    [phase |-> "ideation", success |-> success, ideas_in |-> ideas_in,
     ideas_out |-> ideas_out, evaluation |-> evaluation, error |-> error]

ProductIdea(id, name, elevator_pitch) ==
    [id |-> id, name |-> name, elevator_pitch |-> elevator_pitch, status |-> "draft"]

IdeaScore(idea_id, idea_name, overall, pass_gate) ==
    [idea_id |-> idea_id, idea_name |-> idea_name, overall |-> overall, pass_gate |-> pass_gate]

\* the members of the enum PipelinePhase
PipelinePhase == {"ideation", "market_research", "feasibility", "product_design",
                  "prototyping", "testing", "viability"}

\* the gate of the last phase is missing and a threshold is off the scale
GATE_REQUIREMENTS_broken ==
    [p \in {"ideation", "market_research", "feasibility", "product_design",
            "prototyping", "testing"} |->
        [phase |-> p, min_judge_score |-> IF p = "ideation" THEN 6 ELSE 11]]

\* the dict GATE_REQUIREMENTS: phase and min_judge_score of each GateRequirement
GATE_REQUIREMENTS ==
    [p \in {"ideation", "market_research", "feasibility", "product_design",
            "prototyping", "testing", "viability"} |->
        CASE p = "ideation" -> [phase |-> p, min_judge_score |-> 6]
          [] p = "market_research" -> [phase |-> p, min_judge_score |-> 7]
          [] p = "feasibility" -> [phase |-> p, min_judge_score |-> 7]
          [] p = "product_design" -> [phase |-> p, min_judge_score |-> 8]
          [] p = "prototyping" -> [phase |-> p, min_judge_score |-> 7]
          [] p = "testing" -> [phase |-> p, min_judge_score |-> 7]
          [] p = "viability" -> [phase |-> p, min_judge_score |-> 8]]

\* only BudgetExceededError is converted into a PhaseResult
except_clauses_budget_only(exc) ==
    IF exc.type = "BudgetExceededError"
    THEN [result |-> Some(PhaseResult(FALSE, 0, 0, <<>>, exc.text)), escaped |-> <<>>]
    ELSE [result |-> <<>>, escaped |-> Some(exc)]

\* the two except clauses of execute_ideation: what the call returns and
\* what it lets through to its caller
except_clauses(exc) ==
    IF exc.type = "BudgetExceededError"
    THEN [result |-> Some(PhaseResult(FALSE, 0, 0, <<>>, exc.text)), escaped |-> <<>>]
    ELSE IF exc.type = "Exception"
    THEN [result |-> Some(PhaseResult(FALSE, 0, 0, <<>>, exc.text)), escaped |-> <<>>]
    ELSE [result |-> <<>>, escaped |-> Some(exc)]

\* for idea in batch.ideas: self.safety.check_agent_message("Visionary", idea.elevator_pitch)
RECURSIVE CheckAll(_, _)
CheckAll(m, pitches) ==
    IF pitches = <<>> THEN [safety |-> m, actions |-> <<>>]
    ELSE LET c == check_agent_message(m, "Visionary", pitches[1])
             rest == CheckAll(c.safety, Tail(pitches))
         IN  [safety |-> rest.safety, actions |-> <<c.action>> \o rest.actions]

Matches(s, idea) == s.idea_id = idea.id \/ s.idea_name = idea.name

\* next((s for s in evaluation.scores if ...), None)
FindScore(scores, idea) ==
    LET idx == {i \in DOMAIN scores : Matches(scores[i], idea)}
    IN  IF idx = {} THEN <<>>
        ELSE Some(scores[CHOOSE i \in idx : \A j \in idx : i <= j])

\* an idea without a score is waved through
GatePasses_lenient(scores, idea) ==
    FindScore(scores, idea) = <<>> \/ FindScore(scores, idea)[1].pass_gate

\* if score and score.pass_gate
GatePasses(scores, idea) ==
    FindScore(scores, idea) # <<>> /\ FindScore(scores, idea)[1].pass_gate

\* every idea of the batch is archived, the passed ones too
ApplyGate_archive_all(heap, b, scores) ==
    [ideas |-> [i \in DOMAIN heap |->
                   IF i \in Range(b)
                   THEN [heap[i] EXCEPT !.status =
                            IF GatePasses(scores, heap[i]) THEN "passed" ELSE "failed"]
                   ELSE heap[i]],
     passed_ideas |-> SelectSeq(b, LAMBDA i : GatePasses(scores, heap[i])),
     failed_ideas |-> b]

\* the gate loop: the ideas with their new status, passed_ideas, and the
\* ideas appended to archived_ideas, in batch order
ApplyGate(heap, b, scores) ==
    [ideas |-> [i \in DOMAIN heap |->
                   IF i \in Range(b)
                   THEN [heap[i] EXCEPT !.status =
                            IF GatePasses(scores, heap[i]) THEN "passed" ELSE "failed"]
                   ELSE heap[i]],
     passed_ideas |-> SelectSeq(b, LAMBDA i : GatePasses(scores, heap[i])),
     failed_ideas |-> SelectSeq(b, LAMBDA i : ~GatePasses(scores, heap[i]))]

\* ---------------------------------------------------------------- learning engine
LearningEngine == [lessons |-> <<>>, graveyard |-> <<>>, failure_analyses |-> <<>>]

GraveyardEntry(session_id, concept_name, elevator_pitch, failure_phase, failure_reason, judge_score) ==
    [session_id |-> session_id, concept_name |-> concept_name,
     elevator_pitch |-> elevator_pitch, failure_phase |-> failure_phase,
     failure_reason |-> failure_reason, judge_score |-> judge_score]

\* a Lesson; confidence in hundredths, created_at as seconds and microseconds (UTC)
Lesson(id, phase, category, confidence, validation_status, created_at) ==
    [id |-> id, phase |-> phase, category |-> category, confidence |-> confidence,
     validation_status |-> validation_status, created_at |-> created_at]

\* status_order.get(l.validation_status, 1)
status_order(validation_status) ==
    CASE validation_status = "supported" -> 0
      [] validation_status = "unvalidated" -> 1
      [] validation_status = "contradicted" -> 2
      [] OTHER -> 1

\* datetime.isoformat() of a UTC time, as far as the order of two strings
\* depends on it: the seconds, then "+" (code 43) of the offset when the
\* microseconds are zero and left out, else "." (code 46) and the microseconds
isoformat(t) == IF t.micro = 0 THEN <<t.sec, 43>> ELSE <<t.sec, 46, t.micro>>

\* a < b for two sequences of integers, as Python compares strings and tuples
LexLess(a, b) ==
    \/ \E i \in DOMAIN a \cap DOMAIN b :
          a[i] < b[i] /\ \A j \in 1 .. i - 1 : a[j] = b[j]
    \/ Len(a) < Len(b) /\ \A j \in DOMAIN a : a[j] = b[j]

\* the confidence comes before the validation status
LessonKey_confidence_first(l) ==
    <<0 - l.confidence, status_order(l.validation_status)>> \o isoformat(l.created_at)

\* the sort key (status_order, -confidence, created_at.isoformat())
LessonKey(l) ==
    <<status_order(l.validation_status), 0 - l.confidence>> \o isoformat(l.created_at)

\* x put into the sorted list behind every element that is not greater
InsertLesson(x, sorted) ==
    LET later == {i \in DOMAIN sorted : LexLess(LessonKey(x), LessonKey(sorted[i]))}
        at == IF later = {} THEN Len(sorted) + 1
              ELSE CHOOSE i \in later : \A j \in later : i <= j
    IN  SubSeq(sorted, 1, at - 1) \o <<x>> \o SubSeq(sorted, at, Len(sorted))

\* list.sort(key=...), which is stable
RECURSIVE SortLessons(_)
SortLessons(ls) ==
    IF ls = <<>> THEN <<>>
    ELSE InsertLesson(ls[Len(ls)], SortLessons(SubSeq(ls, 1, Len(ls) - 1)))

\* s[:n] of Python
Take(s, n) ==
    IF n >= 0 THEN SubSeq(s, 1, IF n < Len(s) THEN n ELSE Len(s))
    ELSE SubSeq(s, 1, Max(0, Len(s) + n))

\* LearningEngine.record_lesson
record_lesson(le, lesson) == [le EXCEPT !.lessons = Append(@, lesson)]

\* LearningEngine.get_relevant_lessons: the engine after the call (without a
\* filter the stored list itself is sorted) and the lessons returned
get_relevant_lessons(le, phase, category, limit) ==
    LET by_phase == IF phase # "" THEN SelectSeq(le.lessons, LAMBDA l : l.phase = phase)
                    ELSE le.lessons
        filtered == IF category # None THEN SelectSeq(by_phase, LAMBDA l : l.category = category)
                    ELSE by_phase
        sorted == SortLessons(filtered)
    IN  [learning |-> IF phase = "" /\ category = None
                      THEN [le EXCEPT !.lessons = sorted] ELSE le,
         lessons |-> Take(sorted, limit)]

\* LearningEngine.archive_concept: the engine after the call and the entry returned
archive_concept(le, idea, session_id, failure_phase, failure_reason, judge_score) ==
    LET entry == GraveyardEntry(session_id, idea.name, idea.elevator_pitch,
                                failure_phase, failure_reason, judge_score)
    IN  [learning |-> [le EXCEPT !.graveyard = Append(@, entry)], entry |-> entry]

\* LearningEngine.get_graveyard_entries: the engine after the call and the
\* entries returned.  archived_at is the clock reading at archival, taken as
\* strictly increasing along the graveyard, so that sorting by it in reverse
\* gives the filtered entries from the last archived to the first
get_graveyard_entries(le, failure_reason, limit) ==
    LET entries == IF failure_reason # None
                   THEN SelectSeq(le.graveyard, LAMBDA e : e.failure_reason = failure_reason)
                   ELSE le.graveyard
        sorted == [i \in DOMAIN entries |-> entries[Len(entries) + 1 - i]]
    IN  [learning |-> le, entries |-> Take(sorted, limit)]

\* f"{entry.failure_phase}:{entry.failure_reason.value}"
TrendKey(entry) == entry.failure_phase \o ":" \o entry.failure_reason

\* trends[key] = trends.get(key, 0) + 1 over the graveyard; the dict as the
\* list of its items in insertion order
RECURSIVE CountTrends(_, _)
CountTrends(entries, trends) ==
    IF entries = <<>> THEN trends
    ELSE LET key == TrendKey(entries[1])
             at == {i \in DOMAIN trends : trends[i].key = key}
         IN  CountTrends(Tail(entries),
                 IF at = {} THEN Append(trends, [key |-> key, count |-> 1])
                 ELSE [i \in DOMAIN trends |->
                          IF i \in at THEN [trends[i] EXCEPT !.count = @ + 1]
                          ELSE trends[i]])

\* x put into the sorted list behind every item whose count is not smaller
InsertTrend(x, sorted) ==
    LET later == {i \in DOMAIN sorted : sorted[i].count < x.count}
        at == IF later = {} THEN Len(sorted) + 1
              ELSE CHOOSE i \in later : \A j \in later : i <= j
    IN  SubSeq(sorted, 1, at - 1) \o <<x>> \o SubSeq(sorted, at, Len(sorted))

\* sorted(trends.items(), key=lambda x: -x[1]), which is stable
RECURSIVE SortTrends(_)
SortTrends(ts) ==
    IF ts = <<>> THEN <<>>
    ELSE InsertTrend(ts[Len(ts)], SortTrends(SubSeq(ts, 1, Len(ts) - 1)))

\* the items are returned in the order of their first archival
get_failure_trends_unsorted(le) == CountTrends(le.graveyard, <<>>)

\* LearningEngine.get_failure_trends: the items of the dict returned, in order
get_failure_trends(le) == SortTrends(CountTrends(le.graveyard, <<>>))

\* the lines of "\n".join(parts): a part that starts with "\n" gives an empty
\* line before its text; the empty string has no line
RECURSIVE Join(_)
Join(parts) ==
    IF parts = <<>> THEN <<>>
    ELSE (IF parts[1].kind = "header" /\ parts[1].newline
          THEN <<[kind |-> "blank"], parts[1]>> ELSE <<parts[1]>>) \o Join(Tail(parts))

\* the header of the lessons is written whether or not a lesson follows it
build_context_always_header(le, phase) ==
    LET r == get_relevant_lessons(le, phase, None, 5)
        lessons == r.lessons
        graveyard_recent == IF le.graveyard # <<>> THEN LastN(le.graveyard, 5) ELSE <<>>
        trends == get_failure_trends(r.learning)
        top == Take(trends, 3)
        parts1 == <<[kind |-> "header", section |-> "lessons", newline |-> FALSE]>>
                  \o [i \in DOMAIN lessons |->
                         [kind |-> "lesson", id |-> lessons[i].id,
                          validation_status |-> lessons[i].validation_status,
                          confidence |-> lessons[i].confidence]]
        parts2 == IF graveyard_recent # <<>>
                  THEN <<[kind |-> "header", section |-> "graveyard", newline |-> TRUE]>>
                       \o [i \in DOMAIN graveyard_recent |->
                              [kind |-> "concept",
                               concept_name |-> graveyard_recent[i].concept_name,
                               failure_phase |-> graveyard_recent[i].failure_phase]]
                  ELSE <<>>
        parts3 == IF trends # <<>>
                  THEN <<[kind |-> "header", section |-> "trends", newline |-> TRUE]>>
                       \o [i \in DOMAIN top |->
                              [kind |-> "pattern", key |-> top[i].key, count |-> top[i].count]]
                  ELSE <<>>
        parts == parts1 \o parts2 \o parts3
    IN  [learning |-> r.learning, text |-> IF parts # <<>> THEN Join(parts) ELSE <<>>]

\* LearningEngine.build_context_for_session: the engine after the call and
\* the lines of the string returned
build_context_for_session(le, phase) ==
    LET r == get_relevant_lessons(le, phase, None, 5)
        lessons == r.lessons
        graveyard_recent == IF le.graveyard # <<>> THEN LastN(le.graveyard, 5) ELSE <<>>
        trends == get_failure_trends(r.learning)
        top == Take(trends, 3)
        parts1 == IF lessons # <<>>
                  THEN <<[kind |-> "header", section |-> "lessons", newline |-> FALSE]>>
                       \o [i \in DOMAIN lessons |->
                              [kind |-> "lesson", id |-> lessons[i].id,
                               validation_status |-> lessons[i].validation_status,
                               confidence |-> lessons[i].confidence]]
                  ELSE <<>>
        parts2 == IF graveyard_recent # <<>>
                  THEN <<[kind |-> "header", section |-> "graveyard", newline |-> TRUE]>>
                       \o [i \in DOMAIN graveyard_recent |->
                              [kind |-> "concept",
                               concept_name |-> graveyard_recent[i].concept_name,
                               failure_phase |-> graveyard_recent[i].failure_phase]]
                  ELSE <<>>
        parts3 == IF trends # <<>>
                  THEN <<[kind |-> "header", section |-> "trends", newline |-> TRUE]>>
                       \o [i \in DOMAIN top |->
                              [kind |-> "pattern", key |-> top[i].key, count |-> top[i].count]]
                  ELSE <<>>
        parts == parts1 \o parts2 \o parts3
    IN  [learning |-> r.learning, text |-> IF parts # <<>> THEN Join(parts) ELSE <<>>]

\* ---------------------------------------------------------------- initial states
InitWith(m) ==
    /\ safety = m
    /\ run = PipelineRun
    /\ ideas = <<>>
    /\ pc = "idle"
    /\ batch = <<>>
    /\ result = <<>>
    /\ raised = <<>>
    /\ escaped = <<>>
    /\ calls = [phases |-> 0, generate |-> 0, evaluate |-> 0, messages |-> 0]
    /\ checks = <<>>
    /\ ret = [op |-> "none"]
    /\ learning = LearningEngine
    /\ log = <<>>
    /\ gates = GATE_REQUIREMENTS

\* ---------------------------------------------------------------- actions
\* a direct CostTracker.record call
Record(agent_name, model, input_tokens, output_tokens, phase) ==
    /\ Len(safety.cost_tracker.entries) < MaxEntries
    /\ LET r == record(safety.cost_tracker, agent_name, model, input_tokens, output_tokens, phase)
       IN  /\ safety' = [safety EXCEPT !.cost_tracker = r.cost_tracker]
           /\ ret' = [op |-> "record", raised |-> r.raised, entry |-> r.entry]
    /\ UNCHANGED orch_vars

\* a direct SafetyMonitor.record_cost call
RecordCost(agent_name, model, input_tokens, output_tokens, phase) ==
    /\ Len(safety.cost_tracker.entries) < MaxEntries
    /\ Len(safety.events) + 2 <= MaxEvents
    /\ LET r == record_cost(safety, agent_name, model, input_tokens, output_tokens, phase)
       IN  /\ safety' = r.safety
           /\ ret' = [op |-> "record_cost", raised |-> r.raised, agent_name |-> agent_name]
    /\ UNCHANGED orch_vars

\* a direct SafetyMonitor.check_agent_message call
CheckAgentMessage(agent_name, message) ==
    /\ calls.messages < MaxMessages
    /\ Len(safety.events) + 2 <= MaxEvents
    /\ LET c == check_agent_message(safety, agent_name, message)
       IN  /\ safety' = c.safety
           /\ ret' = [op |-> "check_agent_message", action |-> c.action,
                      agent_name |-> agent_name, message |-> message]
    /\ calls' = [calls EXCEPT !.messages = @ + 1]
    /\ UNCHANGED <<run, ideas, pc, batch, result, raised, escaped, checks, learning, log, gates>>

\* a direct LoopDetector.check call
Check(agent_name, message) ==
    /\ calls.messages < MaxMessages
    /\ LET c == check(safety.loop_detector, agent_name, message)
       IN  /\ safety' = [safety EXCEPT !.loop_detector = c.loop_detector]
           /\ ret' = [op |-> "check", action |-> c.action,
                      agent_name |-> agent_name, message |-> message]
           /\ log' = Append(log, [agent_name |-> agent_name, message |-> message,
                                  action |-> c.action])
    /\ calls' = [calls EXCEPT !.messages = @ + 1]
    /\ UNCHANGED <<run, ideas, pc, batch, result, raised, escaped, checks, learning, gates>>

Pause ==
    /\ Len(safety.events) < MaxEvents
    /\ safety' = pause(safety)
    /\ ret' = [op |-> "pause"]
    /\ UNCHANGED orch_vars

Resume ==
    /\ Len(safety.events) < MaxEvents
    /\ safety' = resume(safety)
    /\ ret' = [op |-> "resume"]
    /\ UNCHANGED orch_vars

Kill ==
    /\ Len(safety.events) < MaxEvents
    /\ safety' = kill(safety)
    /\ ret' = [op |-> "kill"]
    /\ UNCHANGED orch_vars

\* execute_ideation up to its first await: the precondition check and the
\* call of the generation capability
PhaseStart ==
    /\ pc = "idle"
    /\ calls.phases < MaxPhases
    /\ batch' = <<>>
    /\ checks' = <<>>
    /\ raised' = <<>>
    /\ escaped' = <<>>
    /\ IF ~is_safe_to_proceed(safety)
       THEN /\ result' = Some(PhaseResult(FALSE, 0, 0, <<>>,
                                          "System status: " \o safety.status))
            /\ pc' = "idle"
            /\ calls' = [calls EXCEPT !.phases = @ + 1]
       ELSE /\ result' = <<>>
            /\ pc' = "generating"
            /\ calls' = [calls EXCEPT !.phases = @ + 1, !.generate = @ + 1]
    /\ UNCHANGED <<safety, run, ideas, ret, learning, log, gates>>

\* the generation capability raises
GenRaise(exc) ==
    /\ pc = "generating"
    /\ raised' = Some(exc)
    /\ result' = except_clauses(exc).result
    /\ escaped' = except_clauses(exc).escaped
    /\ pc' = "idle"
    /\ UNCHANGED <<safety, run, ideas, batch, calls, checks, ret, learning, log, gates>>

\* the generation capability returns a batch and its usage: execute_ideation
\* from there to its second await (record_cost, the check_agent_message loop,
\* the call of the evaluation capability)
GenReturn(items, usage) ==
    /\ pc = "generating"
    /\ LET n == Len(ideas)
           b == [k \in 1 .. Len(items) |-> n + k]
           rc == record_cost(safety, "Visionary", "claude-sonnet-4-20250514",
                             usage[1], usage[2], "ideation")
           ca == CheckAll(rc.safety, [k \in 1 .. Len(items) |-> items[k].elevator_pitch])
       IN  /\ ideas' = ideas \o items
           /\ batch' = b
           /\ run' = [run EXCEPT !.session_id = calls.phases]
           /\ IF rc.raised
              THEN LET exc == [type |-> "BudgetExceededError", text |-> "Budget exceeded"]
                       h == except_clauses(exc)
                   IN  /\ safety' = rc.safety
                       /\ raised' = Some(exc)
                       /\ result' = h.result
                       /\ escaped' = h.escaped
                       /\ pc' = "idle"
                       /\ UNCHANGED <<calls, checks>>
              ELSE /\ safety' = ca.safety
                   /\ checks' = ca.actions
                   /\ calls' = [calls EXCEPT !.evaluate = @ + 1]
                   /\ pc' = "evaluating"
                   /\ UNCHANGED <<result, raised, escaped>>
    /\ UNCHANGED <<ret, learning, log, gates>>

\* when the evaluation capability fails the batch is archived as failed
EvalRaise_archives(exc) ==
    /\ pc = "evaluating"
    /\ raised' = Some(exc)
    /\ result' = except_clauses(exc).result
    /\ escaped' = except_clauses(exc).escaped
    /\ pc' = "idle"
    /\ ideas' = [i \in DOMAIN ideas |->
                    IF i \in Range(batch) THEN [ideas[i] EXCEPT !.status = "failed"]
                    ELSE ideas[i]]
    /\ run' = [run EXCEPT !.archived_ideas = @ \o batch]
    /\ UNCHANGED <<safety, batch, calls, checks, ret, learning, log, gates>>

\* the evaluation capability raises
EvalRaise(exc) ==
    /\ pc = "evaluating"
    /\ raised' = Some(exc)
    /\ result' = except_clauses(exc).result
    /\ escaped' = except_clauses(exc).escaped
    /\ pc' = "idle"
    /\ UNCHANGED <<safety, run, ideas, batch, calls, checks, ret, learning, log, gates>>

\* the evaluation capability returns its report: the gate step and the
\* PhaseResult
EvalReturn(scores) ==
    /\ pc = "evaluating"
    /\ LET g == ApplyGate(ideas, batch, scores)
       IN  /\ ideas' = g.ideas
           /\ run' = [run EXCEPT !.active_ideas = g.passed_ideas,
                                 !.archived_ideas = @ \o g.failed_ideas]
           /\ result' = Some(PhaseResult(Len(g.passed_ideas) > 0, Len(batch),
                                         Len(g.passed_ideas),
                                         Some([scores |-> scores,
                                               gate_threshold |->
                                                   gates["ideation"].min_judge_score]),
                                         None))
    /\ pc' = "idle"
    /\ UNCHANGED <<safety, batch, raised, escaped, calls, checks, ret, learning, log, gates>>

\* a direct LearningEngine.record_lesson call; the lesson's id stands for its uuid
RecordLesson(phase, category, confidence, validation_status, created_at) ==
    /\ LET lesson == Lesson(Len(learning.lessons) + 1, phase, category, confidence,
                            validation_status, created_at)
       IN  /\ learning' = record_lesson(learning, lesson)
           /\ ret' = [op |-> "record_lesson"]
    /\ UNCHANGED <<safety, run, ideas, pc, batch, result, raised, escaped, calls, checks,
                   log, gates>>

\* a direct LearningEngine.get_relevant_lessons call
GetRelevantLessons(phase, category, limit) ==
    /\ LET r == get_relevant_lessons(learning, phase, category, limit)
       IN  /\ learning' = r.learning
           /\ ret' = [op |-> "get_relevant_lessons", phase |-> phase, category |-> category,
                      limit |-> limit, lessons |-> r.lessons]
    /\ UNCHANGED <<safety, run, ideas, pc, batch, result, raised, escaped, calls, checks,
                   log, gates>>

\* a direct LearningEngine.archive_concept call
ArchiveConcept(idea, session_id, failure_phase, failure_reason, judge_score) ==
    /\ Len(learning.graveyard) < MaxGraveyard
    /\ LET r == archive_concept(learning, idea, session_id, failure_phase, failure_reason,
                                judge_score)
       IN  /\ learning' = r.learning
           /\ ret' = [op |-> "archive_concept", entry |-> r.entry]
    /\ UNCHANGED <<safety, run, ideas, pc, batch, result, raised, escaped, calls, checks,
                   log, gates>>

\* a direct LearningEngine.get_graveyard_entries call
GetGraveyardEntries(failure_reason, limit) ==
    /\ LET r == get_graveyard_entries(learning, failure_reason, limit)
       IN  /\ learning' = r.learning
           /\ ret' = [op |-> "get_graveyard_entries", failure_reason |-> failure_reason,
                      limit |-> limit, entries |-> r.entries]
    /\ UNCHANGED <<safety, run, ideas, pc, batch, result, raised, escaped, calls, checks,
                   log, gates>>

\* a direct LearningEngine.get_failure_trends call
GetFailureTrends ==
    /\ ret' = [op |-> "get_failure_trends", trends |-> get_failure_trends(learning)]
    /\ UNCHANGED <<safety, run, ideas, pc, batch, result, raised, escaped, calls, checks,
                   learning, log, gates>>

\* a direct LearningEngine.build_context_for_session call
BuildContext(phase) ==
    /\ LET r == build_context_for_session(learning, phase)
       IN  /\ learning' = r.learning
           /\ ret' = [op |-> "build_context_for_session", phase |-> phase, text |-> r.text]
    /\ UNCHANGED <<safety, run, ideas, pc, batch, result, raised, escaped, calls, checks,
                   log, gates>>

\* ---------------------------------------------------------------- inputs
TokenCounts == {0, 1000}

Models == {"claude-sonnet-4-20250514", "gpt-4o-mini", "some-other-model"}

\* request and response tokens of one call
Usages == {<<0, 0>>, <<1000, 0>>, <<1000, 1000>>}

Messages == {<<"a">>, <<"a", "b">>}

\* the exceptions a capability raises
Exceptions == {[type |-> "Exception", text |-> "provider error"]}

\* all sequences over S of length lo .. hi
SeqsOf(S, lo, hi) == UNION {[1 .. n -> S] : n \in lo .. hi}

\* IdeaBatch holds at least one idea
BatchesOf(kinds) == SeqsOf(kinds, 1, MaxBatch)

ReportsOf(kinds) == SeqsOf(kinds, 0, MaxScores)

\* one kind of idea, which repeats its pitch
PlainIdeas == {ProductIdea("i1", "n1", <<"a">>)}

\* two kinds of idea with different pitches
TwoIdeas == {ProductIdea("i1", "n1", <<"a">>), ProductIdea("i2", "n2", <<"b">>)}

\* the scores the judge gives the two kinds of idea
TwoScores == {IdeaScore(k[1], k[2], v[1], v[2]) :
                 k \in {<<"i1", "n1">>, <<"i2", "n2">>}, v \in {<<8, TRUE>>, <<4, FALSE>>}}

\* reports with at most two scores, for the two kinds of idea
RunReports == SeqsOf(TwoScores, 0, 2)

\* reports with at most one score, for the idea "i1"
PlainReports ==
    SeqsOf({IdeaScore("i1", "n1", 8, TRUE), IdeaScore("i1", "n1", 4, FALSE)}, 0, 1)

\* ideas that share an id or a name, one pitch
NamedIdeas == {ProductIdea(k[1], k[2], <<"a">>) :
                  k \in {<<"i1", "n1">>, <<"i2", "n1">>, <<"i2", "n2">>}}

NamedScores == {IdeaScore(i, n, v[1], v[2]) :
                   i \in {"i1", "i2"}, n \in {"n1", "n2"},
                   v \in {<<8, TRUE>>, <<4, FALSE>>, <<4, TRUE>>}}

\* messages with no word, with the same word in two cases, with two words
DetectorMessages == {<<>>, <<"a">>, <<"A">>, <<"a", "b">>}

\* two times within the same second, the first without microseconds
Times == {[sec |-> 1, micro |-> 0], [sec |-> 1, micro |-> 500000]}

\* the lessons recorded: phase, category, confidence, validation status, created_at
LessonKinds ==
    {<<"ideation", "market_insight", c, v, [sec |-> 1, micro |-> 0]>> :
        c \in {70, 90}, v \in {"supported", "unvalidated", "contradicted"}}
    \cup {<<"ideation", "market_insight", 70, "supported", t>> : t \in Times}
    \cup {<<"feasibility", "market_insight", 90, "supported", [sec |-> 1, micro |-> 0]>>,
          <<"ideation", "anti_pattern", 90, "supported", [sec |-> 1, micro |-> 0]>>}

\* ---------------------------------------------------------------- specifications
\* the ledger alone, with budgets of $0.003 and $0.01
InitLedger == \E b \in {300000, 1000000} : InitWith(SafetyMonitor(b, 85, 3))

NextLedger ==
    \E a \in AgentNames, m \in Models, i \in TokenCounts, o \in TokenCounts :
        Record(a, m, i, o, "ideation")

SpecLedger == InitLedger /\ [][NextLedger]_vars

\* the monitor and its callers, with a budget of $0.006
InitMonitor == \E w \in {2, 3} : InitWith(SafetyMonitor(600000, 85, w))

NextMonitor ==
    \/ Pause
    \/ Resume
    \/ Kill
    \/ \E u \in Usages :
          RecordCost("Visionary", "claude-sonnet-4-20250514", u[1], u[2], "ideation")
    \/ \E msg \in Messages : CheckAgentMessage("StuckAgent", msg)

SpecMonitor == InitMonitor /\ [][NextMonitor]_vars

\* the loop detector alone, for windows of 1 to 3 messages and thresholds of
\* 0.5 and 1.0
InitDetector ==
    \E w \in {1, 2, 3}, t \in {50, 100} : InitWith(SafetyMonitor(600000, t, w))

NextDetector == \E a \in AgentNames, msg \in DetectorMessages : Check(a, msg)

SpecDetector == InitDetector /\ [][NextDetector]_vars

\* the orchestrator, its capabilities and the operator, with a budget of $0.01
Init == InitWith(SafetyMonitor(1000000, 85, 2))

Next ==
    \/ PhaseStart
    \/ \E b \in BatchesOf(PlainIdeas), u \in {<<1000, 0>>, <<1000, 1000>>} : GenReturn(b, u)
    \/ \E e \in Exceptions : GenRaise(e)
    \/ \E r \in PlainReports : EvalReturn(r)
    \/ \E e \in Exceptions : EvalRaise(e)
    \/ Pause
    \/ Resume
    \/ Kill

Spec == Init /\ [][Next]_vars

\* the orchestrator and its capabilities over several phase executions,
\* without the operator
NextRun ==
    \/ PhaseStart
    \/ \E b \in BatchesOf(TwoIdeas) : GenReturn(b, <<1000, 0>>)
    \/ \E r \in RunReports : EvalReturn(r)

SpecRun == Init /\ [][NextRun]_vars

\* the orchestrator and capabilities that may fail, without the operator
NextRetry ==
    \/ PhaseStart
    \/ \E b \in BatchesOf(TwoIdeas) : GenReturn(b, <<1000, 0>>)
    \/ \E e \in Exceptions : GenRaise(e)
    \/ \E r \in PlainReports : EvalReturn(r)
    \/ \E e \in Exceptions : EvalRaise(e)

SpecRetry == Init /\ [][NextRetry]_vars

\* one phase execution, with ideas and scores that share ids and names
NextGate ==
    \/ calls.phases = 0 /\ PhaseStart
    \/ \E b \in BatchesOf(NamedIdeas) : GenReturn(b, <<1000, 0>>)
    \/ \E r \in ReportsOf(NamedScores) : EvalReturn(r)

SpecGate == Init /\ [][NextGate]_vars

\* the failures archived: the idea's name, the phase and the reason
FailureKinds ==
    <<<<"n1", "feasibility", "technical_blocker">>, <<"n2", "ideation", "low_novelty">>,
      <<"n1", "ideation", "technical_blocker">>, <<"n2", "feasibility", "low_novelty">>>>

\* the graveyard of the learning engine and its failure trends
NextGraveyard ==
    \/ \E k \in DOMAIN FailureKinds :
          ArchiveConcept(ProductIdea("i1", FailureKinds[k][1], <<"a">>), 1,
                         FailureKinds[k][2], FailureKinds[k][3], 4)
    \/ GetFailureTrends

SpecGraveyard == Init /\ [][NextGraveyard]_vars

\* a kind of failure has been archived
Archived(k) ==
    \E i \in DOMAIN learning.graveyard :
        /\ learning.graveyard[i].failure_phase = FailureKinds[k][2]
        /\ learning.graveyard[i].failure_reason = FailureKinds[k][3]

\* the context built for a session: the lessons of the ideation phase are
\* recorded before those of the feasibility phase, and the kinds of failure
\* appear in the order of FailureKinds, which leaves out the runs that differ
\* only in the order of the phases and in the names of the kinds
NextContext ==
    \/ /\ Len(learning.lessons) < MaxContextLessons
       /\ \E p \in {"ideation", "feasibility"} :
             /\ p = "ideation" => \A i \in DOMAIN learning.lessons :
                                     learning.lessons[i].phase = "ideation"
             /\ RecordLesson(p, "market_insight", 90, "unvalidated", [sec |-> 1, micro |-> 0])
    \/ \E k \in DOMAIN FailureKinds :
          /\ IF k = 1 THEN TRUE ELSE Archived(k - 1)
          /\ ArchiveConcept(ProductIdea("i1", FailureKinds[k][1], <<"a">>), 1,
                            FailureKinds[k][2], FailureKinds[k][3], 4)
    \/ BuildContext("feasibility")

SpecContext == Init /\ [][NextContext]_vars

\* the lessons of the learning engine
NextLessons ==
    \/ /\ Len(learning.lessons) < MaxLessons
       /\ \E k \in LessonKinds : RecordLesson(k[1], k[2], k[3], k[4], k[5])
    \/ \E p \in {"", "ideation"}, c \in {None, "market_insight"}, n \in {0, 2} :
          GetRelevantLessons(p, c, n)

SpecLessons == Init /\ [][NextLessons]_vars

\* the lessons recorded before the queries: two validation statuses, two phases
QueryLessons ==
    {<<"ideation", "market_insight", 70, "unvalidated", [sec |-> 1, micro |-> 0]>>,
     <<"ideation", "market_insight", 70, "supported", [sec |-> 1, micro |-> 0]>>,
     <<"feasibility", "market_insight", 70, "supported", [sec |-> 1, micro |-> 0]>>}

\* the learning engine under its writers and its four queries
NextQueries ==
    \/ /\ Len(learning.lessons) < MaxLessons
       /\ \E k \in QueryLessons : RecordLesson(k[1], k[2], k[3], k[4], k[5])
    \/ /\ Len(learning.graveyard) < MaxLessons
       /\ \E k \in {1, 2} :
             ArchiveConcept(ProductIdea("i1", FailureKinds[k][1], <<"a">>), 1,
                            FailureKinds[k][2], FailureKinds[k][3], 4)
    \/ \E p \in {"", "ideation"}, c \in {None, "market_insight"} : GetRelevantLessons(p, c, 10)
    \/ \E r \in {None, "low_novelty"} : GetGraveyardEntries(r, 20)
    \/ GetFailureTrends
    \/ BuildContext("ideation")

SpecQueries == Init /\ [][NextQueries]_vars

\* every model of the pricing table and one that is not in it
AllModels == DOMAIN MODEL_PRICING \cup {"some-other-model"}

\* request and response tokens of one call, a single token included
TokenPairs == {<<0, 0>>, <<1, 1>>, <<1000, 0>>, <<0, 1000>>}

\* the ledger with a budget of $0.01, for every model
NextPricing ==
    \E m \in AllModels, u \in TokenPairs : Record("Visionary", m, u[1], u[2], "ideation")

SpecPricing == Init /\ [][NextPricing]_vars

\* ---------------------------------------------------------------- claims
Entries == safety.cost_tracker.entries

\* C1: once the monitor's status is KILLED, no pause, resume, kill,
\* check_agent_message or record_cost call changes it, and
\* is_safe_to_proceed() is false after every such call.
C1_KilledIsTerminal ==
    [][safety.status = "killed" =>
          safety'.status = "killed" /\ ~is_safe_to_proceed(safety')]_vars

\* a resume() was called on a killed monitor
C1_Witness == safety.status = "killed" /\ ret.op = "resume"

\* C2: a record_cost call whose entry brings the total to the budget or
\* beyond appends a budget_exceeded event naming the agent, kills the
\* monitor and re-raises; a call that stays below budget changes neither the
\* status nor the event log.
C2_RecordCostKillsOnBudget ==
    [][Len(safety'.cost_tracker.entries) = Len(Entries) + 1 =>
          IF SumCost(safety'.cost_tracker.entries) >= safety.cost_tracker.budget_usd
          THEN /\ Len(safety'.events) = Len(safety.events) + 2
               /\ SubSeq(safety'.events, 1, Len(safety.events)) = safety.events
               /\ safety'.events[Len(safety.events) + 1] =
                      [event_type |-> "budget_exceeded", agent_name |-> ret'.agent_name]
               /\ safety'.status = "killed"
               /\ ret'.op = "record_cost" /\ ret'.raised
               /\ ~is_safe_to_proceed(safety')
          ELSE /\ safety'.status = safety.status
               /\ safety'.events = safety.events
               /\ ret'.op = "record_cost" /\ ~ret'.raised]_vars

\* a record_cost call on a running monitor met the budget exactly and raised
C2_Witness ==
    /\ ret.op = "record_cost" /\ ret.raised
    /\ SumCost(Entries) = safety.cost_tracker.budget_usd
    /\ safety.status = "killed"
    /\ Len(safety.events) = 2

\* C3: a phase execution that starts while the status is PAUSED or KILLED
\* returns a failed PhaseResult naming the status, calls neither capability,
\* neither record_cost nor check_agent_message, and leaves the run's lists
\* alone.
C3_UnsafePhaseIsRefused ==
    [][(calls'.phases = calls.phases + 1 /\ safety.status # "running") =>
          /\ Len(result') = 1
          /\ ~result'[1].success
          /\ result'[1].error = "System status: " \o safety.status
          /\ result'[1].error \in {"System status: paused", "System status: killed"}
          /\ calls'.generate = calls.generate
          /\ calls'.evaluate = calls.evaluate
          /\ safety' = safety
          /\ checks' = <<>>
          /\ run' = run
          /\ ideas' = ideas
          /\ pc' = "idle"]_vars

\* a phase was refused after a budget kill
C3_Witness ==
    /\ Len(result) = 1
    /\ result[1].error = "System status: killed"
    /\ SumCost(Entries) >= safety.cost_tracker.budget_usd
    /\ calls.phases = 2 /\ calls.generate = 1

\* C4: once the status has left RUNNING no new call of a capability is
\* issued; a generation call in flight resolves, but the evaluation
\* capability is not called in that phase execution.
C4_NoCallOnceNotRunning ==
    [][safety.status # "running" =>
          calls'.generate = calls.generate /\ calls'.evaluate = calls.evaluate]_vars

LoopKillRecorded == \E e \in Range(safety.loop_detector.events) : e.action_taken = "kill"

\* C5: when check_agent_message returns KILL for an idea of the batch (here
\* by loop escalation), no further idea is passed to it, the evaluation
\* capability is not called and no idea of the batch is marked PASSED.
C5_KillAbortsPhase ==
    ("kill" \in Range(checks) /\ LoopKillRecorded) =>
        /\ \A k \in DOMAIN checks : checks[k] = "kill" => k = Len(checks)
        /\ pc # "evaluating"
        /\ \A i \in Range(batch) : ideas[i].status # "passed"

\* the phase execution got through the gate step
Completed == Len(result) = 1 /\ result[1].error = None

ReportScores == result[1].evaluation[1].scores

\* the positions of the scores of the report that match the idea by id or by name
MatchingScores(i) ==
    {k \in DOMAIN ReportScores :
        ReportScores[k].idea_id = ideas[i].id \/ ReportScores[k].idea_name = ideas[i].name}

\* the score the gate reads for the idea: the first matching one
FirstMatch(i) == ReportScores[CHOOSE k \in MatchingScores(i) : \A j \in MatchingScores(i) : k <= j]

C7_PhaseResultCounts ==
    [][(pc = "evaluating" /\ pc' = "idle" /\ Len(result') = 1 /\ result'[1].error = None) =>
          LET r == result'[1]
              old == Len(run.archived_ideas)
              new == Len(run'.archived_ideas)
          IN  /\ r.ideas_in = Len(batch)
              /\ r.ideas_out = Cardinality({i \in Range(batch) : ideas'[i].status = "passed"})
              /\ r.success <=> r.ideas_out >= 1
              /\ new = old + r.ideas_in - r.ideas_out
              /\ SubSeq(run'.archived_ideas, 1, old) = run.archived_ideas
              /\ \A k \in old + 1 .. new :
                    /\ run'.archived_ideas[k] \in Range(batch)
                    /\ ideas'[run'.archived_ideas[k]].status = "failed"]_vars

\* a second phase took in two ideas, passed one and archived the other
\* behind the ideas archived by the first phase
C7_Witness ==
    /\ Completed
    /\ calls.phases = 2
    /\ result[1].ideas_in = 2 /\ result[1].ideas_out = 1 /\ result[1].success
    /\ Len(run.archived_ideas) = 3
    /\ \A k \in 1 .. 3 : ideas[run.archived_ideas[k]].status = "failed"

\* C8: execute_ideation never raises to its caller: it ends by returning a
\* PhaseResult, and when the generation capability, record_cost or the
\* evaluation capability raised, the result has success = false and carries
\* the exception's text.
C8_NeverRaises ==
    /\ escaped = <<>>
    /\ (pc = "idle" /\ calls.phases > 0) => Len(result) = 1
    /\ raised # <<>> =>
          /\ pc = "idle"
          /\ Len(result) = 1
          /\ ~result[1].success
          /\ result[1].error = raised[1].text

\* the evaluation capability raised and the phase returned a failed result
C8_Witness ==
    /\ raised # <<>>
    /\ raised[1].type = "Exception"
    /\ calls.evaluate = 1
    /\ Len(batch) > 0
    /\ Len(result) = 1 /\ result[1].error = "provider error"

RECURSIVE SumComputed(_)
SumComputed(es) ==
    IF es = <<>> THEN 0
    ELSE es[1].input_tokens * Pricing(es[1].model)[1]
         + es[1].output_tokens * Pricing(es[1].model)[2] + SumComputed(Tail(es))

\* C9: record raises BudgetExceededError exactly when the total including
\* the new entry is at or above the budget; the triggering entry is then the
\* last entry of the ledger; below budget the call returns the appended entry.
C9_RecordRaisesAtBudget ==
    ret.op = "record" =>
        /\ ret.raised <=> SumCost(Entries) >= safety.cost_tracker.budget_usd
        /\ Len(Entries) >= 1
        /\ Entries[Len(Entries)] = ret.entry

\* a record call brought the total exactly to the budget and raised, its entry kept
C9_Witness ==
    /\ ret.op = "record" /\ ret.raised
    /\ Len(Entries) >= 2
    /\ SumCost(Entries) = safety.cost_tracker.budget_usd
    /\ Entries[Len(Entries)] = ret.entry

\* C10: every record call, raising or not, appends exactly one entry and
\* removes none; total_cost is the sum of the computed costs of the entries
\* and never decreases.
C10_LedgerAppendOnly ==
    [][/\ Len(safety'.cost_tracker.entries) = Len(Entries) + 1
       /\ SubSeq(safety'.cost_tracker.entries, 1, Len(Entries)) = Entries
       /\ total_cost(safety'.cost_tracker) = SumComputed(safety'.cost_tracker.entries)
       /\ total_cost(safety'.cost_tracker) >= total_cost(safety.cost_tracker)]_vars

\* a call raised and a later call raised again, every entry kept
C10_Witness ==
    /\ ret.op = "record" /\ ret.raised
    /\ Len(Entries) = 3
    /\ SumCost(SubSeq(Entries, 1, 2)) >= safety.cost_tracker.budget_usd
    /\ total_cost(safety.cost_tracker) = SumComputed(Entries)

\* C11: with a fixed budget, once is_over_budget is true it stays true after
\* every later record call, and every later record call, one of zero cost
\* included, raises BudgetExceededError and still appends its entry.
C11_OverBudgetIsPermanent ==
    [][is_over_budget(safety.cost_tracker) =>
          /\ safety'.cost_tracker.budget_usd = safety.cost_tracker.budget_usd
          /\ is_over_budget(safety'.cost_tracker)
          /\ ret'.op = "record" /\ ret'.raised
          /\ safety'.cost_tracker.entries = Append(Entries, ret'.entry)]_vars

\* a record call of zero cost on a ledger already over budget raised, its entry kept
C11_Witness ==
    /\ ret.op = "record" /\ ret.raised
    /\ Len(Entries) >= 2
    /\ ret.entry.cost_usd = 0
    /\ Entries[Len(Entries)] = ret.entry
    /\ SumCost(SubSeq(Entries, 1, Len(Entries) - 1)) >= safety.cost_tracker.budget_usd

\* the direct check calls of one agent, in order
AgentLog(a) == SelectSeq(log, LAMBDA c : c.agent_name = a)

\* the calls of the agent that flagged a loop, in order
Flagged(a) == SelectSeq(AgentLog(a), LAMBDA c : c.action # None)

Severity(action) ==
    CASE action = "inject_prompt" -> 1 [] action = "skip_turn" -> 2 [] action = "kill" -> 3

\* C12: per agent, the first check call that flags a loop returns
\* INJECT_PROMPT, the second SKIP_TURN, the third and every later one KILL, so
\* the severity never decreases; with window_size = 2 and the same message
\* sent four times in a row the 2nd call returns INJECT_PROMPT and the 4th
\* KILL.
C12_EscalationIsMonotonic ==
    \A a \in AgentNames :
        /\ \A k \in DOMAIN Flagged(a) :
              Flagged(a)[k].action =
                  (IF k = 1 THEN "inject_prompt" ELSE IF k = 2 THEN "skip_turn" ELSE "kill")
        /\ \A j, k \in DOMAIN Flagged(a) :
              j <= k => Severity(Flagged(a)[j].action) <= Severity(Flagged(a)[k].action)
        /\ ( /\ safety.loop_detector.window_size = 2
             /\ Len(AgentLog(a)) >= 4
             /\ Words(AgentLog(a)[1].message) # {}
             /\ \A k \in 2 .. 4 : AgentLog(a)[k].message = AgentLog(a)[1].message )
           => AgentLog(a)[2].action = "inject_prompt" /\ AgentLog(a)[4].action = "kill"

\* with a window of two messages an agent sent the same message four times:
\* no action, INJECT_PROMPT, SKIP_TURN, KILL
C12_Witness ==
    /\ safety.loop_detector.window_size = 2
    /\ Len(AgentLog("StuckAgent")) = 4
    /\ \A k \in 1 .. 4 : AgentLog("StuckAgent")[k].message = <<"a", "b">>
    /\ [k \in 1 .. 4 |-> AgentLog("StuckAgent")[k].action] =
           <<None, "inject_prompt", "skip_turn", "kill">>

\* C13: for every window_size >= 1 and threshold <= 1.0 and any prior
\* history, when an agent sends the same message of at least one word
\* window_size times in a row, at least one of those check calls, at the
\* latest the final one, returns a non-null action.
C13_RepeatedMessageIsFlagged ==
    \A a \in AgentNames :
        LET w == safety.loop_detector.window_size
            l == AgentLog(a)
        IN  \A k \in DOMAIN l :
                ( /\ k >= w
                  /\ Words(l[k].message) # {}
                  /\ \A j \in k - w + 1 .. k : l[j].message = l[k].message )
                => \E j \in k - w + 1 .. k : l[j].action # None

\* with a window of three and a threshold of 1.0, an agent with a different
\* earlier message repeated a message three times and only the last call
\* was flagged
C13_Witness ==
    /\ safety.loop_detector.window_size = 3
    /\ safety.loop_detector.threshold = 100
    /\ Len(AgentLog("StuckAgent")) = 4
    /\ AgentLog("StuckAgent")[1].message = <<"a", "b">>
    /\ \A k \in 2 .. 4 : AgentLog("StuckAgent")[k].message = <<"a">>
    /\ \A k \in 1 .. 3 : AgentLog("StuckAgent")[k].action = None
    /\ AgentLog("StuckAgent")[4].action # None

\* the step is a check_agent_message call
MessageChecked == calls'.messages = calls.messages + 1 /\ ret'.op = "check_agent_message"

\* C14: on a RUNNING monitor check_agent_message returns what the loop
\* detector returns for that agent and message; a non-null action appends one
\* 'loop_detected:<action>' event naming the agent; KILL also sets the status
\* to KILLED and appends a 'killed' event; for INJECT_PROMPT, SKIP_TURN and
\* no action the status stays RUNNING.
C14_CheckMessageDelegates ==
    [][(MessageChecked /\ safety.status = "running") =>
          LET c == check(safety.loop_detector, ret'.agent_name, ret'.message)
              n == Len(safety.events)
          IN  /\ ret'.action = c.action
              /\ safety'.loop_detector = c.loop_detector
              /\ safety'.cost_tracker = safety.cost_tracker
              /\ SubSeq(safety'.events, 1, n) = safety.events
              /\ IF ret'.action = None
                 THEN Len(safety'.events) = n /\ safety'.status = "running"
                 ELSE /\ safety'.events[n + 1] =
                            [event_type |-> "loop_detected:" \o ret'.action,
                             agent_name |-> ret'.agent_name]
                      /\ safety'.events[n + 1].event_type \in
                            {"loop_detected:inject_prompt", "loop_detected:skip_turn",
                             "loop_detected:kill"}
                      /\ IF ret'.action = "kill"
                         THEN /\ Len(safety'.events) = n + 2
                              /\ safety'.events[n + 2] =
                                    [event_type |-> "killed", agent_name |-> "system"]
                              /\ safety'.status = "killed"
                         ELSE Len(safety'.events) = n + 1 /\ safety'.status = "running"]_vars

\* the third flagged message of an agent killed a running monitor
C14_Witness ==
    /\ ret.op = "check_agent_message" /\ ret.action = "kill"
    /\ safety.status = "killed"
    /\ Len(safety.loop_detector.events) = 3
    /\ Len(safety.events) = 4
    /\ safety.events[3] = [event_type |-> "loop_detected:kill", agent_name |-> "StuckAgent"]
    /\ safety.events[4] = [event_type |-> "killed", agent_name |-> "system"]

\* C15: while the status is PAUSED or KILLED check_agent_message returns KILL
\* without consulting the loop detector: the detector's history and events,
\* the event log and the status are unchanged, and a PAUSED monitor can still
\* be resumed.
C15_CheckMessageFailsClosed ==
    [][(MessageChecked /\ safety.status # "running") =>
          /\ ret'.action = "kill"
          /\ safety'.loop_detector.history = safety.loop_detector.history
          /\ safety'.loop_detector.events = safety.loop_detector.events
          /\ safety'.events = safety.events
          /\ safety'.status = safety.status
          /\ safety.status = "paused" => resume(safety').status = "running"]_vars

\* a message was checked on a paused monitor whose detector already held a
\* message of the agent
C15_Witness ==
    /\ ret.op = "check_agent_message" /\ ret.action = "kill"
    /\ safety.status = "paused"
    /\ safety.loop_detector.history["StuckAgent"] = <<ret.message>>
    /\ safety.loop_detector.events = <<>>
    /\ calls.messages = 2

\* C16: pause() acts only from RUNNING (to PAUSED) and resume() only from
\* PAUSED (to RUNNING), each appending one event when it acts and changing
\* nothing otherwise; pause() then resume() on a RUNNING monitor gives
\* is_safe_to_proceed() again, with is_safe_to_proceed() false in between.
C16_PauseResume ==
    [][/\ ret'.op = "pause" =>
             IF safety.status = "running"
             THEN safety' = [safety EXCEPT
                                !.status = "paused",
                                !.events = Append(@, [event_type |-> "paused",
                                                      agent_name |-> "system"])]
             ELSE safety' = safety
       /\ ret'.op = "resume" =>
             IF safety.status = "paused"
             THEN safety' = [safety EXCEPT
                                !.status = "running",
                                !.events = Append(@, [event_type |-> "resumed",
                                                      agent_name |-> "system"])]
             ELSE safety' = safety
       /\ safety.status = "running" =>
             /\ ~is_safe_to_proceed(pause(safety))
             /\ is_safe_to_proceed(resume(pause(safety)))]_vars

\* a running monitor was paused and then resumed
C16_Witness ==
    /\ ret.op = "resume"
    /\ safety.status = "running"
    /\ Len(safety.events) >= 2
    /\ safety.events[Len(safety.events) - 1].event_type = "paused"
    /\ safety.events[Len(safety.events)].event_type = "resumed"

\* C17: kill() sets the status to KILLED and appends a 'killed' event from
\* every prior status, and a second kill() leaves the status at KILLED as a
\* single one does.
C17_KillIsUnconditional ==
    [][ret'.op = "kill" =>
          /\ safety'.status = "killed"
          /\ safety'.events = Append(safety.events, [event_type |-> "killed",
                                                     agent_name |-> "system"])
          /\ safety'.cost_tracker = safety.cost_tracker
          /\ safety'.loop_detector = safety.loop_detector
          /\ kill(kill(safety)).status = kill(safety).status]_vars

\* a paused monitor was killed and then killed again
C17_Witness ==
    /\ ret.op = "kill"
    /\ safety.status = "killed"
    /\ Len(safety.events) = 3
    /\ safety.events[1].event_type = "paused"
    /\ safety.events[2].event_type = "killed"
    /\ safety.events[3].event_type = "killed"

\* C18: a failure of the generation or evaluation capability (an exception
\* other than BudgetExceededError) yields a failed PhaseResult carrying the
\* error message and does not kill the run: the status after the phase is
\* what it was before it, RUNNING, and the next phase execution invokes the
\* generation capability again.
C18_CapabilityFailureDoesNotKill ==
    [][/\ (pc # "idle" /\ pc' = "idle" /\ raised' # <<>>
           /\ raised'[1].type # "BudgetExceededError") =>
             /\ Len(result') = 1
             /\ ~result'[1].success
             /\ result'[1].error = raised'[1].text
             /\ safety'.status = "running"
       /\ (pc = "idle" /\ raised # <<>> /\ raised[1].type # "BudgetExceededError"
           /\ calls'.phases = calls.phases + 1) =>
             calls'.generate = calls.generate + 1]_vars

\* the positions of the scores of the report whose idea_id is the idea's id
IdMatches(i) == {k \in DOMAIN ReportScores : ReportScores[k].idea_id = ideas[i].id}

\* the positions of the scores of the report whose idea_name is the idea's name
NameMatches(i) == {k \in DOMAIN ReportScores : ReportScores[k].idea_name = ideas[i].name}

First(S) == CHOOSE k \in S : \A j \in S : k <= j

\* C19: the gate matches by id first and by name as a fallback: when a score
\* of the report has the idea's id, that score decides the idea's outcome; a
\* score that matches by name only is used only when no score has the idea's
\* id, whatever the order of the scores.
C19_GateMatchesByIdFirst ==
    Completed =>
        \A i \in Range(batch) :
            ideas[i].status =
                (IF IdMatches(i) # {}
                 THEN (IF ReportScores[First(IdMatches(i))].pass_gate
                       THEN "passed" ELSE "failed")
                 ELSE IF NameMatches(i) # {}
                 THEN (IF ReportScores[First(NameMatches(i))].pass_gate
                       THEN "passed" ELSE "failed")
                 ELSE "failed")

\* C20: every idea the gate marks FAILED is archived into the learning
\* engine: after a completed phase execution the graveyard holds exactly one
\* new GraveyardEntry for each newly FAILED idea, recording the phase it
\* failed at.
C20_FailedIdeasReachGraveyard ==
    [][(pc = "evaluating" /\ pc' = "idle" /\ Len(result') = 1 /\ result'[1].error = None) =>
          LET failed == SelectSeq(batch, LAMBDA i : ideas'[i].status = "failed")
              old == Len(learning.graveyard)
          IN  /\ Len(learning'.graveyard) = old + Len(failed)
              /\ SubSeq(learning'.graveyard, 1, old) = learning.graveyard
              /\ \A k \in DOMAIN failed :
                    /\ learning'.graveyard[old + k].concept_name = ideas[failed[k]].name
                    /\ learning'.graveyard[old + k].failure_phase = "ideation"]_vars

\* C24: the Jaccard similarity of the loop detector is symmetric, lies in
\* [0,1], is 1 for two texts with the same non-empty set of lower-cased
\* words and 0 when either text has no word.  Stated for every two messages
\* an agent has sent to check.
C24_JaccardProperties ==
    \A a \in AgentNames :
        \A t1, t2 \in Range(safety.loop_detector.history[a]) :
            LET sim == jaccard_similarity(t1, t2)
                w1 == {Lower(t1[i]) : i \in DOMAIN t1}
                w2 == {Lower(t2[i]) : i \in DOMAIN t2}
            IN  /\ sim[2] > 0
                /\ sim[1] * jaccard_similarity(t2, t1)[2] =
                       jaccard_similarity(t2, t1)[1] * sim[2]
                /\ 0 <= sim[1] /\ sim[1] <= sim[2]
                /\ (w1 = w2 /\ w1 # {}) => sim[1] = sim[2]
                /\ (w1 = {} \/ w2 = {}) => sim[1] = 0

\* an agent has sent a message without words and the same word in two cases
C24_Witness ==
    \E a \in AgentNames :
        {<<>>, <<"a">>, <<"A">>, <<"a", "b">>} \subseteq Range(safety.loop_detector.history[a])

\* C25: each of the seven pipeline phases has exactly one gate entry, whose
\* phase field is the phase it is stored under and whose threshold is an
\* integer in 1..10 (so in [0,10]); no operation of the orchestrator or the
\* safety monitor changes the table.
C25_GateTableIntegrity ==
    /\ DOMAIN gates = PipelinePhase
    /\ Cardinality(DOMAIN gates) = 7
    /\ \A p \in PipelinePhase :
          /\ gates[p].phase = p
          /\ gates[p].min_judge_score \in 1 .. 10
    /\ gates = GATE_REQUIREMENTS

\* two phase executions read the gate of the ideation phase, one of them
\* after the operator had paused and resumed
C25_Witness ==
    /\ Completed
    /\ calls.evaluate = 2
    /\ result[1].evaluation[1].gate_threshold = 6
    /\ \E k \in DOMAIN safety.events : safety.events[k].event_type = "resumed"

\* the step is a direct check call
CheckCalled == calls'.messages = calls.messages + 1 /\ ret'.op = "check"

\* C26: a check call never flags a loop when the agent's stored history
\* before the call holds fewer than window_size messages: it returns None and
\* records no LoopEvent.
C26_ShortHistoryNeverFlags ==
    [][(CheckCalled /\ Len(safety.loop_detector.history[ret'.agent_name])
                          < safety.loop_detector.window_size) =>
          /\ ret'.action = None
          /\ safety'.loop_detector.events = safety.loop_detector.events]_vars

\* C26, amended: a check call never flags a loop when the agent's stored
\* history before the call holds fewer than window_size - 1 messages.
C26_ShorterHistoryNeverFlags ==
    [][(CheckCalled /\ Len(safety.loop_detector.history[ret'.agent_name])
                          < safety.loop_detector.window_size - 1) =>
          /\ ret'.action = None
          /\ safety'.loop_detector.events = safety.loop_detector.events]_vars

\* with a window of three, the second of two identical messages was not flagged
C26_Witness ==
    /\ safety.loop_detector.window_size = 3
    /\ ret.op = "check" /\ ret.action = None
    /\ Len(AgentLog(ret.agent_name)) = 2
    /\ AgentLog(ret.agent_name)[1].message = <<"a">>
    /\ AgentLog(ret.agent_name)[2].message = <<"a">>
    /\ safety.loop_detector.events = <<>>

\* C27: a check call with a message that holds no word never flags a loop:
\* for every window_size >= 1, threshold and prior history it returns None
\* and records no LoopEvent.
C27_EmptyMessageNeverFlags ==
    [][(CheckCalled /\ Words(ret'.message) = {}) =>
          /\ ret'.action = None
          /\ safety'.loop_detector.events = safety.loop_detector.events]_vars

\* the messages an agent has sent to check, after the step
SentAfter(a) == LET l == SelectSeq(log', LAMBDA c : c.agent_name = a)
                IN  [k \in DOMAIN l |-> l[k].message]

\* C30: a check call that returns an action appends exactly one LoopEvent
\* for that agent, with the returned action and with the last window_size
\* messages of the agent, the triggering one last, as its window; a call
\* that returns None appends none; LoopEvents are never removed or modified.
C30_FlaggedCallsAreRecorded ==
    [][CheckCalled =>
          LET old == safety.loop_detector.events
              new == safety'.loop_detector.events
              w == safety.loop_detector.window_size
              sent == SentAfter(ret'.agent_name)
          IN  /\ SubSeq(new, 1, Len(old)) = old
              /\ IF ret'.action = None
                 THEN new = old
                 ELSE /\ Len(new) = Len(old) + 1
                      /\ new[Len(new)].agent_name = ret'.agent_name
                      /\ new[Len(new)].action_taken = ret'.action
                      /\ new[Len(new)].message_window =
                             SubSeq(sent, Max(1, Len(sent) - w + 1), Len(sent))
                      /\ new[Len(new)].message_window[Len(new[Len(new)].message_window)]
                             = ret'.message]_vars

\* with a window of two an agent was flagged on its third message, the
\* event holding the last two of its three messages
C30_Witness ==
    /\ safety.loop_detector.window_size = 2
    /\ ret.op = "check" /\ ret.action = "inject_prompt"
    /\ Len(safety.loop_detector.events) = 1
    /\ safety.loop_detector.events[1].agent_name = ret.agent_name
    /\ safety.loop_detector.events[1].message_window = <<<<"a">>, <<"A">>>>
    /\ Len(AgentLog(ret.agent_name)) = 3
    /\ AgentLog(ret.agent_name)[1].message = <<"a", "b">>

\* C29: an idea advances only if it meets the gate threshold of the phase:
\* no idea is marked PASSED or put in the active list when the overall value
\* of its matched score is below the phase's min_judge_score, whatever pass
\* flag the evaluation reported.
C29_AdvanceMeetsThreshold ==
    Completed =>
        \A i \in Range(batch) :
            (ideas[i].status = "passed" \/ i \in Range(run.active_ideas)) =>
                /\ MatchingScores(i) # {}
                /\ FirstMatch(i).overall >= gates["ideation"].min_judge_score

StatusRank(l) ==
    CASE l.validation_status = "supported" -> 1
      [] l.validation_status = "unvalidated" -> 2
      [] l.validation_status = "contradicted" -> 3

\* C21: get_relevant_lessons returns at most limit lessons, all of the
\* engine and all satisfying the phase and category filters given, every
\* SUPPORTED lesson before every UNVALIDATED one and those before every
\* CONTRADICTED one, whatever the order of recording and the confidence;
\* within one status the higher confidence comes first.
C21_RelevantLessonsOrder ==
    ret.op = "get_relevant_lessons" =>
        LET res == ret.lessons
        IN  /\ Len(res) <= ret.limit
            /\ \A i \in DOMAIN res :
                  /\ res[i] \in Range(learning.lessons)
                  /\ ret.phase # "" => res[i].phase = ret.phase
                  /\ ret.category # None => res[i].category = ret.category
            /\ \A i, j \in DOMAIN res :
                  i < j =>
                      /\ StatusRank(res[i]) <= StatusRank(res[j])
                      /\ StatusRank(res[i]) = StatusRank(res[j]) =>
                             res[i].confidence >= res[j].confidence

\* a SUPPORTED lesson of lower confidence, recorded last, came back before an
\* UNVALIDATED one of higher confidence, with a limit that cut the result
C21_Witness ==
    /\ ret.op = "get_relevant_lessons" /\ ret.limit = 2 /\ ret.phase = "ideation"
    /\ Len(learning.lessons) = 3
    /\ Len(ret.lessons) = 2
    /\ ret.lessons[1].validation_status = "supported" /\ ret.lessons[1].confidence = 70
    /\ ret.lessons[1].id = 3
    /\ ret.lessons[2].validation_status = "unvalidated" /\ ret.lessons[2].confidence = 90

\* t1 is later than t2
Later(t1, t2) == t1.sec > t2.sec \/ (t1.sec = t2.sec /\ t1.micro > t2.micro)

\* C28: among the lessons get_relevant_lessons returns with the same
\* validation status and confidence the more recently created one comes
\* first, and those created at the same time come in insertion order.
C28_RecentLessonsFirst ==
    ret.op = "get_relevant_lessons" =>
        \A i, j \in DOMAIN ret.lessons :
            (/\ i < j
             /\ ret.lessons[i].validation_status = ret.lessons[j].validation_status
             /\ ret.lessons[i].confidence = ret.lessons[j].confidence) =>
                \/ Later(ret.lessons[i].created_at, ret.lessons[j].created_at)
                \/ /\ ret.lessons[i].created_at = ret.lessons[j].created_at
                   /\ ret.lessons[i].id < ret.lessons[j].id

\* how many entries of the graveyard failed at the phase for the reason
Archives(phase, reason) ==
    Cardinality({i \in DOMAIN learning.graveyard :
                    /\ learning.graveyard[i].failure_phase = phase
                    /\ learning.graveyard[i].failure_reason = reason})

\* the (phase, reason) pairs of the graveyard
ArchivedPairs ==
    {<<learning.graveyard[i].failure_phase, learning.graveyard[i].failure_reason>> :
        i \in DOMAIN learning.graveyard}

RECURSIVE SumCounts(_)
SumCounts(ts) == IF ts = <<>> THEN 0 ELSE ts[1].count + SumCounts(Tail(ts))

\* C22: after any sequence of archive_concept calls get_failure_trends maps
\* each (phase, reason) pair to the number of archive calls made with it,
\* under the key 'phase:reason', has no key with count 0, its counts sum to
\* the size of the graveyard, and its items come in non-increasing count.
C22_FailureTrendsCount ==
    ret.op = "get_failure_trends" =>
        LET t == ret.trends
        IN  /\ \A pr \in ArchivedPairs :
                  \E i \in DOMAIN t :
                      /\ t[i].key = pr[1] \o ":" \o pr[2]
                      /\ t[i].count = Archives(pr[1], pr[2])
            /\ \A i \in DOMAIN t :
                  /\ t[i].count >= 1
                  /\ \E pr \in ArchivedPairs : t[i].key = pr[1] \o ":" \o pr[2]
                  /\ \A j \in DOMAIN t : t[i].key = t[j].key => i = j
            /\ SumCounts(t) = Len(learning.graveyard)
            /\ \A i, j \in DOMAIN t : i < j => t[i].count >= t[j].count

\* three archives at 'feasibility' with 'technical_blocker', made after an
\* archive of another kind, head the trends with count 3
C22_Witness ==
    /\ ret.op = "get_failure_trends"
    /\ Len(learning.graveyard) = 4
    /\ learning.graveyard[1].failure_phase = "ideation"
    /\ Len(ret.trends) = 2
    /\ ret.trends[1] = [key |-> "feasibility:technical_blocker", count |-> 3]
    /\ ret.trends[2].count = 1

\* the lines of one kind in the text returned
LinesOf(kind) == SelectSeq(ret.text, LAMBDA l : l.kind = kind)

ContentKind(section) ==
    CASE section = "lessons" -> "lesson"
      [] section = "graveyard" -> "concept"
      [] section = "trends" -> "pattern"

\* C23: build_context_for_session(phase) returns the empty string iff there
\* is no lesson for the phase and the graveyard is empty; every header it
\* writes is followed by at least one line of its section; it holds at most 5
\* lessons, the 5 most recently archived entries of the graveyard and the 3
\* failure patterns of highest count.
C23_ContextSections ==
    ret.op = "build_context_for_session" =>
        LET text == ret.text
            g == learning.graveyard
            recent == SubSeq(g, Max(1, Len(g) - 4), Len(g))
            patterns == LinesOf("pattern")
        IN  /\ text = <<>> <=>
                  /\ \A i \in DOMAIN learning.lessons : learning.lessons[i].phase # ret.phase
                  /\ g = <<>>
            /\ \A i \in DOMAIN text :
                  text[i].kind = "header" =>
                      i < Len(text) /\ text[i + 1].kind = ContentKind(text[i].section)
            /\ Len(LinesOf("lesson")) <= 5
            /\ \A i \in DOMAIN LinesOf("lesson") :
                  \E j \in DOMAIN learning.lessons :
                      /\ learning.lessons[j].id = LinesOf("lesson")[i].id
                      /\ learning.lessons[j].phase = ret.phase
            /\ Len(LinesOf("concept")) = Len(recent)
            /\ \A i \in DOMAIN recent :
                  /\ LinesOf("concept")[i].concept_name = recent[i].concept_name
                  /\ LinesOf("concept")[i].failure_phase = recent[i].failure_phase
            /\ Len(patterns) = (IF Cardinality(ArchivedPairs) < 3
                                THEN Cardinality(ArchivedPairs) ELSE 3)
            /\ \A i \in DOMAIN patterns :
                  \E pr \in ArchivedPairs :
                      /\ patterns[i].key = pr[1] \o ":" \o pr[2]
                      /\ patterns[i].count = Archives(pr[1], pr[2])
                      /\ \A j \in DOMAIN patterns : patterns[j].key = patterns[i].key => i = j
            /\ \A pr \in ArchivedPairs :
                  (\A i \in DOMAIN patterns : patterns[i].key # pr[1] \o ":" \o pr[2]) =>
                      \A i \in DOMAIN patterns : patterns[i].count >= Archives(pr[1], pr[2])

\* with six lessons of the phase and six archived failures of four kinds the
\* text holds five lessons, five concepts and three patterns
C23_Witness ==
    /\ ret.op = "build_context_for_session"
    /\ Cardinality({i \in DOMAIN learning.lessons : learning.lessons[i].phase = ret.phase}) = 6
    /\ Len(learning.graveyard) = 6
    /\ Cardinality(ArchivedPairs) = 4
    /\ Len(LinesOf("lesson")) = 5
    /\ Len(LinesOf("concept")) = 5
    /\ Len(LinesOf("pattern")) = 3
    /\ Len(LinesOf("header")) = 3

\* the events the step appended to the log
Appended == SubSeq(safety'.events, Len(safety.events) + 1, Len(safety'.events))

\* C31: from a fresh RUNNING monitor, every state with status KILLED has a
\* 'killed' event in the log; a kill triggered by the budget is immediately
\* preceded by a 'budget_exceeded' event and a kill triggered by a loop by a
\* 'loop_detected:kill' event, each naming the responsible agent; and no
\* operation removes or alters an earlier event.
C31_KillsAreExplained ==
    [][/\ Len(safety'.events) >= Len(safety.events)
       /\ SubSeq(safety'.events, 1, Len(safety.events)) = safety.events
       /\ safety'.status = "killed" =>
             \E i \in DOMAIN safety'.events : safety'.events[i].event_type = "killed"
       /\ (ret'.op = "record_cost" /\ ret'.raised) =>
             /\ safety'.status = "killed"
             /\ Appended = <<SafetyEvent("budget_exceeded", ret'.agent_name),
                             SafetyEvent("killed", "system")>>
       /\ (ret'.op = "check_agent_message" /\ ret'.action = "kill"
           /\ safety.status = "running") =>
             /\ safety'.status = "killed"
             /\ Appended = <<SafetyEvent("loop_detected:kill", ret'.agent_name),
                             SafetyEvent("killed", "system")>>
       /\ ret'.op = "kill" =>
             /\ safety'.status = "killed"
             /\ Appended = <<SafetyEvent("killed", "system")>>]_vars

\* a kill by loop escalation and, on the killed monitor, a kill by the budget
C31_Witness ==
    /\ safety.status = "killed"
    /\ ret.op = "record_cost" /\ ret.raised
    /\ Len(safety.events) = 6
    /\ safety.events[3] = SafetyEvent("loop_detected:kill", "StuckAgent")
    /\ safety.events[4] = SafetyEvent("killed", "system")
    /\ safety.events[5] = SafetyEvent("budget_exceeded", "Visionary")
    /\ safety.events[6] = SafetyEvent("killed", "system")

\* C32: for a monitor that starts RUNNING with an empty ledger and a fixed
\* budget, and whose ledger is written only through record_cost, in every
\* reachable state a ledger that is over budget implies status KILLED, so
\* that is_safe_to_proceed() is false.
C32_OverBudgetIsKilled ==
    is_over_budget(safety.cost_tracker) =>
        safety.status = "killed" /\ ~is_safe_to_proceed(safety)

\* the second entry meets the budget exactly, on a monitor that was paused
C32_Witness ==
    /\ Len(Entries) = 2
    /\ total_cost(safety.cost_tracker) = safety.cost_tracker.budget_usd
    /\ ~is_over_budget([safety.cost_tracker EXCEPT !.entries = SubSeq(@, 1, 1)])
    /\ safety.status = "killed"
    /\ \E i \in DOMAIN safety.events : safety.events[i].event_type = "paused"
    /\ ~\E i \in DOMAIN safety.events : safety.events[i].event_type = "resumed"

\* the call of execute_ideation has returned a PhaseResult with an error
FailedResult(r) == r # <<>> /\ r[1].error # None

\* C33: whenever a phase execution returns a PhaseResult with a non-null
\* error (precondition failure, BudgetExceededError from record_cost, failure
\* of the generation or evaluation capability), active_ideas and
\* archived_ideas are as they were before the call and no item's status has
\* changed; when the failure is BudgetExceededError the evaluation capability
\* was not invoked.  Stated on the steps of a call: every step but the one
\* that returns a PhaseResult without error leaves the lists and the statuses
\* alone, and the step that raises BudgetExceededError starts before the
\* evaluation capability is called and does not call it.
C33_FailedPhaseChangesNothing ==
    [][/\ (result' = <<>> \/ FailedResult(result')) =>
             /\ run'.active_ideas = run.active_ideas
             /\ run'.archived_ideas = run.archived_ideas
             /\ \A i \in DOMAIN ideas : ideas'[i].status = ideas[i].status
       /\ (raised' # raised /\ raised' # <<>> /\ raised'[1].type = "BudgetExceededError") =>
             /\ FailedResult(result')
             /\ pc = "generating"
             /\ calls'.evaluate = calls.evaluate]_vars

\* a second phase execution fails on the budget after a first one passed
\* its two ideas
C33_Witness ==
    /\ calls.phases = 2
    /\ pc = "idle"
    /\ FailedResult(result)
    /\ raised # <<>> /\ raised[1].type = "BudgetExceededError"
    /\ calls.evaluate = 1
    /\ Len(run.active_ideas) = 2
    /\ run.archived_ideas = <<>>
    /\ Len(ideas) > 2
    /\ \A i \in Range(run.active_ideas) : ideas[i].status = "passed"

\* C34: across any sequence of phase executions on one Controller the
\* archive only grows (an item once archived stays archived), every archived
\* item has status FAILED, every item of active_ideas has status PASSED, and
\* no item is in both lists.
C34_ArchiveOnlyGrows ==
    [][/\ Len(run'.archived_ideas) >= Len(run.archived_ideas)
       /\ SubSeq(run'.archived_ideas, 1, Len(run.archived_ideas)) = run.archived_ideas
       /\ \A i \in Range(run'.archived_ideas) : ideas'[i].status = "failed"
       /\ \A i \in Range(run'.active_ideas) : ideas'[i].status = "passed"
       /\ Range(run'.active_ideas) \cap Range(run'.archived_ideas) = {}]_vars

\* two phase executions have each archived an idea and the second has passed
\* another
C34_Witness ==
    /\ calls.phases = 2
    /\ pc = "idle"
    /\ Len(run.archived_ideas) = 2
    /\ Len(run.active_ideas) = 1
    /\ \E i \in Range(run.archived_ideas) : i \notin Range(batch)
    /\ \E i \in Range(run.archived_ideas) : i \in Range(batch)
    /\ Range(run.active_ideas) \subseteq Range(batch)

\* the check calls of one agent on a detector, one after the other: the
\* detector at the end and the actions returned
RECURSIVE Replay(_, _, _)
Replay(ld, agent_name, messages) ==
    IF messages = <<>> THEN [loop_detector |-> ld, actions |-> <<>>]
    ELSE LET c == check(ld, agent_name, messages[1])
             rest == Replay(c.loop_detector, agent_name, Tail(messages))
         IN  [loop_detector |-> rest.loop_detector, actions |-> <<c.action>> \o rest.actions]

\* what the agent's own messages give on a detector that sees no other agent
Alone(agent_name) ==
    Replay(LoopDetector(safety.loop_detector.threshold, safety.loop_detector.window_size),
           agent_name,
           [i \in DOMAIN AgentLog(agent_name) |-> AgentLog(agent_name)[i].message])

\* the LoopEvents of a detector that name the agent, in order
EventsNaming(ld, a) == SelectSeq(ld.events, LAMBDA e : e.agent_name = a)

\* C35: loop detection is isolated per agent: the actions check() returns
\* for an agent, its stored history and its escalation level are those its
\* own messages give in order on a detector no other agent calls, whatever
\* check() calls of other agents are interleaved (flagged and escalated to
\* KILL ones included).
C35_AgentsAreIsolated ==
    \A a \in AgentNames :
        /\ [i \in DOMAIN AgentLog(a) |-> AgentLog(a)[i].action] = Alone(a).actions
        /\ HistoryOf(safety.loop_detector, a) = HistoryOf(Alone(a).loop_detector, a)
        /\ EventsNaming(safety.loop_detector, a) = EventsNaming(Alone(a).loop_detector, a)

\* after three flagged calls of one agent, the last escalated to KILL, the
\* first flagged call of the other agent is answered with INJECT_PROMPT
C35_Witness ==
    /\ Len(log) = 4
    /\ \A i \in 1 .. 3 : log[i].agent_name = "StuckAgent"
    /\ log[3].action = "kill"
    /\ log[4].agent_name = "Visionary"
    /\ log[4].action = "inject_prompt"

\* the queries of the learning engine
QueryOps == {"get_relevant_lessons", "get_graveyard_entries", "get_failure_trends",
             "build_context_for_session"}

\* C36: the queries of the learning engine are read-only: get_relevant_lessons
\* (for any phase and category arguments, none included),
\* get_graveyard_entries, get_failure_trends and build_context_for_session
\* leave the stored lessons and the graveyard unchanged in content and in
\* insertion order.
C36_QueriesAreReadOnly ==
    [][ret'.op \in QueryOps =>
          /\ learning'.lessons = learning.lessons
          /\ learning'.graveyard = learning.graveyard]_vars

\* C37: record_cost is not gated by the status: called while PAUSED or KILLED
\* it still appends the cost entry; if the resulting total meets or exceeds
\* the budget it raises BudgetExceededError and moves a PAUSED monitor to
\* KILLED, and on a KILLED monitor it appends a further 'budget_exceeded' and
\* 'killed' pair of events on every such call.
C37_RecordCostIgnoresStatus ==
    [][(ret'.op = "record_cost" /\ safety.status \in {"paused", "killed"}) =>
          /\ Len(safety'.cost_tracker.entries) = Len(Entries) + 1
          /\ SubSeq(safety'.cost_tracker.entries, 1, Len(Entries)) = Entries
          /\ safety'.cost_tracker.entries[Len(Entries) + 1].agent_name = ret'.agent_name
          /\ IF SumCost(safety'.cost_tracker.entries) >= safety.cost_tracker.budget_usd
             THEN /\ ret'.raised
                  /\ safety'.status = "killed"
                  /\ safety'.events =
                         safety.events \o <<SafetyEvent("budget_exceeded", ret'.agent_name),
                                            SafetyEvent("killed", "system")>>
             ELSE /\ ~ret'.raised
                  /\ safety'.status = safety.status
                  /\ safety'.events = safety.events]_vars

\* a call on a paused monitor met the budget and killed it, and a call on the
\* killed monitor logged the pair of events again
C37_Witness ==
    /\ ret.op = "record_cost" /\ ret.raised
    /\ Len(Entries) = 2
    /\ safety.status = "killed"
    /\ [i \in DOMAIN safety.events |-> safety.events[i].event_type]
           = <<"paused", "budget_exceeded", "killed", "budget_exceeded", "killed">>

\* the messages the agent has sent to check(), in arrival order
Sent(a) == [i \in DOMAIN AgentLog(a) |-> AgentLog(a)[i].message]

\* C38: after every check() call each agent's stored history holds at most
\* 3 * window_size messages, and exactly the most recent messages of that
\* agent in arrival order: every message, flagged or not, is appended, and
\* only the oldest are dropped.
C38_HistoryIsBounded ==
    \A a \in AgentNames :
        LET history == HistoryOf(safety.loop_detector, a)
            cap == 3 * safety.loop_detector.window_size
            n == Len(Sent(a))
        IN  /\ Len(history) <= cap
            /\ Len(history) = (IF n <= cap THEN n ELSE cap)
            /\ history = SubSeq(Sent(a), n - Len(history) + 1, n)

\* with a window of one message the fourth message of an agent, which is
\* flagged, pushes its first message out of the history
C38_Witness ==
    /\ safety.loop_detector.window_size = 1
    /\ Len(Sent("StuckAgent")) = 4
    /\ Sent("StuckAgent")[1] # Sent("StuckAgent")[2]
    /\ HistoryOf(safety.loop_detector, "StuckAgent") = SubSeq(Sent("StuckAgent"), 2, 4)
    /\ log[4].action # None

\* the prices of the claim, USD per million tokens times 100: the pair of
\* the pricing table for its five models, (5.0, 15.0) for any other
ExpectedPrice(model) ==
    CASE model = "claude-sonnet-4-20250514" -> <<300, 1500>>
      [] model = "claude-haiku-3-5-20241022" -> <<80, 400>>
      [] model = "claude-opus-4-20250514" -> <<1500, 7500>>
      [] model = "gpt-4o-mini" -> <<15, 60>>
      [] model = "gpt-4o" -> <<250, 1000>>
      [] OTHER -> <<500, 1500>>

RECURSIVE SumComputedExpected(_)
SumComputedExpected(es) ==
    IF es = <<>> THEN 0
    ELSE es[1].input_tokens * ExpectedPrice(es[1].model)[1]
         + es[1].output_tokens * ExpectedPrice(es[1].model)[2]
         + SumComputedExpected(Tail(es))

\* C39: for every model identifier and every pair of non-negative token
\* counts the cost stored in the entry record() appends is
\* (input_tokens * input_price + output_tokens * output_price) / 1,000,000
\* (here in 10^-8 USD), the prices being the table's pair for the model, or
\* (5.0, 15.0) for a model that is not in the table; an unknown model causes
\* no error: the call raises only when the budget is met.
C39_CostFormula ==
    ret.op = "record" =>
        LET e == Entries[Len(Entries)]
        IN  /\ e = ret.entry
            /\ e.cost_usd = e.input_tokens * ExpectedPrice(e.model)[1]
                            + e.output_tokens * ExpectedPrice(e.model)[2]
            /\ ret.raised <=> SumComputedExpected(Entries) >= safety.cost_tracker.budget_usd

\* a call for a model that is not in the table is priced at the fallback
\* pair and returns, after a one-token call for a model of the table
C39_Witness ==
    /\ ret.op = "record" /\ ~ret.raised
    /\ Len(Entries) = 2
    /\ Entries[1].model = "gpt-4o-mini" /\ Entries[1].cost_usd = 75
    /\ Entries[2].model = "some-other-model"
    /\ Entries[2].input_tokens = 1000 /\ Entries[2].output_tokens = 0
    /\ Entries[2].cost_usd = 500000

====
